---- MODULE Spec2Model ----
(***************************************************************************)
(* Model of the mail-lambda email worker: lambda_handler (the batch loop), *)
(* TemplateService (template loading, placeholder substitution, list       *)
(* expansion, style inlining), EmailService (send_email, send_bulk_email), *)
(* SQSService (parse_message, _validate_message_data) and S3Service        *)
(* (get_template).                                                         *)
(*                                                                         *)
(* Text is a sequence of atoms.  An atom is one character of interest      *)
(* ("{", "}") or an indivisible fragment of text ("Hello ", "<p>").        *)
(* A Python value is a record with a type tag t:                           *)
(*   [t |-> "str", v |-> text]   [t |-> "none"]   [t |-> "int", v |-> n]   *)
(*   [t |-> "list", v |-> <<values>>]   [t |-> "dict", v |-> key :> value] *)
(* Dictionary keys are texts.                                              *)
(*                                                                         *)
(* Each specification starts at a call of the function it is about; the    *)
(* loading of the modules is not modelled.  (template_service.py imports   *)
(* TemplateServiceError, which utils/exceptions.py does not define; every  *)
(* exception raised by render_template is caught by `except Exception` in  *)
(* lambda_handler whatever its class.)                                     *)
(***************************************************************************)
EXTENDS Integers, Sequences, FiniteSets, TLC

\* ------------------------------------------------------------- bounds ----
MaxSegments == 3
MaxListLen == 2
MaxBatch == 2
MaxDests == 2
MaxAddrs == 2

\* ---------------------------------------------------------- variables ----
\* one call of TemplateService._render_content
VARIABLES rpc, template_content, template_data, rendered
\* one call of TemplateService._process_template_data
VARIABLES ppc, pin, pout
\* one invocation of lambda_handler; outcome, loads and sends record, per
\* record, how its pipeline ended, for which records a template was loaded
\* and for which records send_email was called
VARIABLES event, ses_available, hpc, idx, processed_count, failed_count,
          message_body, html_content, stage, response, outcome, loads, sends
\* the number of the invocation of lambda_handler, and the records and the
\* response of the first invocation once its records are delivered again
VARIABLES round, first
\* one call of EmailService.send_bulk_email
VARIABLES destinations, body_html, ses_mode, bpc, bi, results
\* one call of SQSService.parse_message
VARIABLES qpc, qrecord, qresult
\* one call of S3Service.get_template against an object store
VARIABLES spc, s3_buckets, s3_objects, s3_fault, req_bucket, req_key, sresult
\* the requests received by the email transport
VARIABLES ses_calls

rvars == <<rpc, template_content, template_data, rendered>>
pvars == <<ppc, pin, pout>>
hvars == <<event, ses_available, hpc, idx, processed_count, failed_count,
           message_body, html_content, stage, response, outcome, loads, sends>>
ovars == <<round, first>>
bvars == <<destinations, body_html, ses_mode, bpc, bi, results>>
qvars == <<qpc, qrecord, qresult>>
svars == <<spc, s3_buckets, s3_objects, s3_fault, req_bucket, req_key, sresult>>
vars == <<rvars, pvars, hvars, ovars, bvars, qvars, svars, ses_calls>>

\* ------------------------------------------------------ Python values ----
Str(s) == [t |-> "str", v |-> s]
None == [t |-> "none"]
IntV(n) == [t |-> "int", v |-> n]
List(l) == [t |-> "list", v |-> l]
Dict(f) == [t |-> "dict", v |-> f]
EmptyMap == [k \in {} |-> None]

BoundedSeq(S, n) == UNION {[1..k -> S] : k \in 0..n}

RECURSIVE Concat(_)
Concat(ss) == IF ss = <<>> THEN <<>> ELSE Head(ss) \o Concat(Tail(ss))

RECURSIVE JoinWith(_, _)
JoinWith(ss, sep) ==
    IF ss = <<>> THEN <<>>
    ELSE IF Len(ss) = 1 THEN ss[1]
    ELSE ss[1] \o sep \o JoinWith(Tail(ss), sep)

\* repr() of a value that occurs inside a list
PyRepr(x) ==
    IF x.t = "str" THEN <<"'">> \o x.v \o <<"'">>
    ELSE IF x.t = "none" THEN <<"None">>
    ELSE <<ToString(x.v)>>

\* str() as applied by _process_template_data to a value that is not a str
PyStr(x) ==
    IF x.t = "str" THEN x.v
    ELSE IF x.t = "none" THEN <<"None">>
    ELSE IF x.t = "int" THEN <<ToString(x.v)>>
    ELSE <<"[">> \o JoinWith([i \in 1..Len(x.v) |-> PyRepr(x.v[i])], <<", ">>) \o <<"]">>

\* ---------------------------------------------------- TemplateService ----
\* f'<li>{skill}</li>' for one list item
SkillItem(skill) == <<"<li>">> \o PyStr(skill) \o <<"</li>">>

\* ''.join([f'<li>{skill}</li>' for skill in skills])
SkillsHtml(skills) == Concat([i \in 1..Len(skills) |-> SkillItem(skills[i])])

\* one of the two "if key in template_data / isinstance list" blocks
ExpandListField(d, key) ==
    IF key \in DOMAIN d /\ d[key].t = "list"
    THEN [d EXCEPT ![key] = Str(SkillsHtml(d[key].v))]
    ELSE d

\* the final loop: None -> '', any other non-str -> str(value)
CoerceValues(d) ==
    [k \in DOMAIN d |->
        IF d[k].t = "none" THEN Str(<<>>)
        ELSE IF d[k].t # "str" THEN Str(PyStr(d[k]))
        ELSE d[k]]

\* an expansion that knows candidate_skills only
ProcessTemplateDataNoInterviewer(d) ==
    CoerceValues(ExpandListField(d, <<"candidate_skills">>))

ProcessTemplateData(d) ==
    CoerceValues(ExpandListField(ExpandListField(d, <<"candidate_skills">>),
                                 <<"interviewer_skills">>))

\* re.sub(r'<link[^>]*rel="stylesheet"[^>]*>', '', content): the atom "<link>"
\* stands for one complete stylesheet link tag
RemoveLinks(content) == SelectSeq(content, LAMBDA c : c # "<link>")

\* _apply_greeting_styles: literal fragment -> literal replacement.  The
\* fragments <p> and <li> stand for the whole table of replacements; a
\* replacement holds no brace but holds colons (style="color: ...").
StyledAtom(c) ==
    IF c = "<p>" THEN <<"<p style=color", ":", "#4b5563>">>
    ELSE IF c = "<li>" THEN <<"<li style=color", ":", "#374151>">>
    ELSE <<c>>

ApplyGreetingStyles(content) ==
    Concat([i \in 1..Len(content) |-> StyledAtom(content[i])])

InlineStyles(content) ==
    IF \E i \in 1..Len(content) : content[i] = "<link>"
    THEN ApplyGreetingStyles(RemoveLinks(content))
    ELSE content

\* str.format(**data): results
FmtOk(out) == [ok |-> TRUE, out |-> out, err |-> "", name |-> <<>>]
FmtErr(e, n) == [ok |-> FALSE, out |-> <<>>, err |-> e, name |-> n]

\* index of the first brace or colon at or after i, 0 when there is none:
\* the end of a field name
RECURSIVE FieldEnd(_, _)
FieldEnd(s, i) ==
    IF i > Len(s) THEN 0
    ELSE IF s[i] \in {"{", "}", ":"} THEN i
    ELSE FieldEnd(s, i + 1)

\* index of the brace that closes a format spec starting at i with `count`
\* braces open, 0 when the spec is not closed
RECURSIVE SpecEnd(_, _, _)
SpecEnd(s, i, count) ==
    IF i > Len(s) THEN 0
    ELSE IF s[i] = "{" THEN SpecEnd(s, i + 1, count + 1)
    ELSE IF s[i] = "}" THEN IF count = 1 THEN i ELSE SpecEnd(s, i + 1, count - 1)
    ELSE SpecEnd(s, i + 1, count)

\* a lookup that renders a missing key as the empty string
LookupFieldLenient(d, name) ==
    IF name \in DOMAIN d THEN FmtOk(d[name].v) ELSE FmtOk(<<>>)

\* the lookup of one replacement field: a missing key is a KeyError.
LookupField(d, name) ==
    IF name \in DOMAIN d THEN FmtOk(d[name].v) ELSE FmtErr("KeyError", name)

\* str.format over the atoms: "{{" and "}}" are escapes, "{name}" is a
\* replacement field, "{name:spec}" a field with a format spec, a lone
\* brace is a ValueError, "{}" is positional and there are no positional
\* arguments (IndexError).  Text is produced left to right and the first
\* error met ends the call.  The only specs in scope are the style texts
\* put in by _apply_greeting_styles, which str rejects (ValueError).
RECURSIVE FormatFrom(_, _, _, _)
FormatFrom(s, i, d, out) ==
    IF i > Len(s) THEN FmtOk(out)
    ELSE IF s[i] = "}" THEN
        IF i < Len(s) /\ s[i + 1] = "}"
        THEN FormatFrom(s, i + 2, d, Append(out, "}"))
        ELSE FmtErr("ValueError", <<>>)
    ELSE IF s[i] = "{" THEN
        IF i = Len(s) THEN FmtErr("ValueError", <<>>)
        ELSE IF s[i + 1] = "{" THEN FormatFrom(s, i + 2, d, Append(out, "{"))
        ELSE LET e == FieldEnd(s, i + 1)
                 close == IF e # 0 /\ s[e] = ":" THEN SpecEnd(s, e + 1, 1) ELSE e
             IN
             IF e = 0 \/ s[e] = "{" \/ close = 0 THEN FmtErr("ValueError", <<>>)
             ELSE LET name == SubSeq(s, i + 1, e - 1) IN
                  IF name = <<>> THEN FmtErr("IndexError", <<>>)
                  ELSE LET r == LookupField(d, name) IN
                       IF ~r.ok THEN r
                       ELSE IF s[e] = ":" THEN FmtErr("ValueError", <<>>)
                       ELSE FormatFrom(s, e + 1, d, out \o r.out)
    ELSE FormatFrom(s, i + 1, d, Append(out, s[i]))

Format(s, d) == FormatFrom(s, 1, d, <<>>)

\* _render_content: results
RenderOk(out) == [ok |-> TRUE, out |-> out, msg |-> "", name |-> <<>>]
RenderFail(msg, n) == [ok |-> FALSE, out |-> <<>>, msg |-> msg, name |-> n]

RenderContent(content, data) ==
    IF data.t # "dict"
    THEN RenderFail("Error rendering template", <<>>)
    ELSE LET processed_data == ProcessTemplateData(data.v)
             r == Format(InlineStyles(content), processed_data)
         IN  IF r.ok THEN RenderOk(r.out)
             ELSE IF r.err = "KeyError"
                  THEN RenderFail("Missing template variable", r.name)
                  ELSE RenderFail("Error rendering template", <<>>)

\* ---------------------------------------------- _render_content inputs ----
\* A template text is a concatenation of at most MaxSegments segments.
TemplateSegments ==
    { <<"{", "a", "}">>, <<"{", "b", "}">>, <<"{">>, <<"}">>, <<"a">>,
      <<"<link>">>, <<"<p>">> }
TemplateTexts == {Concat(ss) : ss \in BoundedSeq(TemplateSegments, MaxSegments)}
RenderKeys == {<<"a">>, <<"b">>}
RenderValues == {Str(<<"v">>), Str(<<"{", "b", "}">>), None}
RenderData ==
    {Dict(f) : f \in UNION {[K -> RenderValues] : K \in SUBSET RenderKeys}}
        \cup {Str(<<"v">>)}

RenderInit ==
    /\ rpc = "call"
    /\ template_content \in TemplateTexts
    /\ template_data \in RenderData
    /\ rendered = RenderFail("", <<>>)

RenderCall ==
    /\ rpc = "call"
    /\ rendered' = RenderContent(template_content, template_data)
    /\ rpc' = "done"
    /\ UNCHANGED <<template_content, template_data>>
    /\ UNCHANGED <<pvars, hvars, ovars, bvars, qvars, svars, ses_calls>>


\* -------------------------------------------------- placeholder tokens ----
NameAtoms == {"a", "b"}

\* s[i..j] is a `{name}` token: a brace pair around one or more name atoms
TokenAt(s, i, j) ==
    /\ i + 1 < j
    /\ s[i] = "{"
    /\ s[j] = "}"
    /\ \A k \in (i + 1)..(j - 1) : s[k] \in NameAtoms

TokenStarts(s) == {i \in 1..Len(s) : \E j \in 1..Len(s) : TokenAt(s, i, j)}
TokenName(s, i) ==
    LET j == CHOOSE j \in 1..Len(s) : TokenAt(s, i, j) IN SubSeq(s, i + 1, j - 1)
ReferencedNames(s) == {TokenName(s, i) : i \in TokenStarts(s)}
HasTokenPattern(s) == TokenStarts(s) # {}

MissingStarts(s, d) == {i \in TokenStarts(s) : TokenName(s, i) \notin DOMAIN d}
FirstMissingName(s, d) ==
    TokenName(s, CHOOSE i \in MissingStarts(s, d) : \A k \in MissingStarts(s, d) : i <= k)

\* every brace of s belongs to a `{name}` token
RECURSIVE SimpleFrom(_, _)
SimpleFrom(s, i) ==
    IF i > Len(s) THEN TRUE
    ELSE IF s[i] = "}" THEN FALSE
    ELSE IF s[i] = "{" THEN
        LET e == FieldEnd(s, i + 1) IN
        /\ e # 0
        /\ TokenAt(s, i, e)
        /\ SimpleFrom(s, e + 1)
    ELSE SimpleFrom(s, i + 1)
SimpleTemplate(s) == SimpleFrom(s, 1)

BraceFree(x) == x.t # "str" \/ \A i \in 1..Len(x.v) : x.v[i] \notin {"{", "}"}
BraceFreeData(d) == \A k \in DOMAIN d : BraceFree(d[k])
Restrict(d, K) == [k \in (DOMAIN d) \cap K |-> d[k]]

\* C7 (as stated): for every template and data mapping, if every {name}
\* token of the template has a key the output holds no {token} pattern,
\* otherwise the call fails with a missing-variable error naming the first
\* missing token.
C7_AsStated ==
    (rpc = "done" /\ template_data.t = "dict") =>
        IF MissingStarts(template_content, template_data.v) = {}
        THEN rendered.ok => ~HasTokenPattern(rendered.out)
        ELSE /\ ~rendered.ok
             /\ rendered.msg = "Missing template variable"
             /\ rendered.name = FirstMissingName(template_content, template_data.v)

\* C7 (amended): for a template whose braces all belong to {name} tokens
\* and data whose values hold no brace: when every referenced name has a key
\* the call succeeds, the output holds no brace at all, and keys that are not
\* referenced do not change the output; otherwise the call fails with the
\* missing-variable error that names the first missing token.
C7_RenderSimple ==
    (/\ rpc = "done"
     /\ template_data.t = "dict"
     /\ SimpleTemplate(template_content)
     /\ BraceFreeData(template_data.v)) =>
        IF MissingStarts(template_content, template_data.v) = {}
        THEN /\ rendered.ok
             /\ \A i \in 1..Len(rendered.out) : rendered.out[i] \notin {"{", "}"}
             /\ rendered = RenderContent(template_content,
                    Dict(Restrict(template_data.v, ReferencedNames(template_content))))
        ELSE /\ ~rendered.ok
             /\ rendered.msg = "Missing template variable"
             /\ rendered.name = FirstMissingName(template_content, template_data.v)

\* two tokens are missing and the call has failed
C7_Witness ==
    /\ rpc = "done"
    /\ template_data.t = "dict"
    /\ SimpleTemplate(template_content)
    /\ BraceFreeData(template_data.v)
    /\ Cardinality(MissingStarts(template_content, template_data.v)) >= 2
    /\ DOMAIN template_data.v # {}
    /\ ~rendered.ok

\* --------------------------------------- _process_template_data inputs ----
SkillItems == {Str(<<"py">>), Str(<<"go">>)}
SkillLists == {List(l) : l \in BoundedSeq(SkillItems, MaxListLen)}
ProcessKeys == {<<"candidate_skills">>, <<"interviewer_skills">>, <<"tags">>}
ProcessValues == SkillLists \cup {Str(<<"x">>), None}
ProcessData == UNION {[K -> ProcessValues] : K \in SUBSET ProcessKeys}

ProcessInit ==
    /\ ppc = "call"
    /\ pin \in ProcessData
    /\ pout = EmptyMap

ProcessCall ==
    /\ ppc = "call"
    /\ pout' = ProcessTemplateData(pin)
    /\ ppc' = "done"
    /\ UNCHANGED pin
    /\ UNCHANGED <<rvars, hvars, ovars, bvars, qvars, svars, ses_calls>>


DesignatedListFields == {<<"candidate_skills">>, <<"interviewer_skills">>}

\* text is <li>item</li> once per item of l, in the order of l
IsListMarkup(text, l) ==
    /\ Len(text) = 3 * Len(l)
    /\ \A i \in 1..Len(l) :
        /\ text[3 * i - 2] = "<li>"
        /\ <<text[3 * i - 1]>> = l[i].v
        /\ text[3 * i] = "</li>"

\* C8: a list under candidate_skills or interviewer_skills becomes one
\* <li>item</li> per item in input order (the empty list gives the empty
\* string); a list under any other key gets no <li> markup.
C8_ListExpansion ==
    ppc = "done" =>
        /\ DOMAIN pout = DOMAIN pin
        /\ \A k \in DOMAIN pin :
            pin[k].t = "list" =>
                /\ pout[k].t = "str"
                /\ IF k \in DesignatedListFields
                   THEN IsListMarkup(pout[k].v, pin[k].v)
                   ELSE \A i \in 1..Len(pout[k].v) : pout[k].v[i] # "<li>"

\* both designated fields and another key hold lists, one of them empty
C8_Witness ==
    /\ ppc = "done"
    /\ DOMAIN pin = ProcessKeys
    /\ \A k \in ProcessKeys : pin[k].t = "list"
    /\ Len(pin[<<"candidate_skills">>].v) = 0
    /\ Len(pin[<<"interviewer_skills">>].v) = 2
    /\ pin[<<"interviewer_skills">>].v[1] # pin[<<"interviewer_skills">>].v[2]
    /\ Len(pin[<<"tags">>].v) = 2
    /\ pout[<<"candidate_skills">>].v = <<>>

\* ------------------------------------------------------- EmailService ----
\* validate_email / the transport know addresses by their text
AddressClass(text) ==
    IF text \in {<<"a@x.com">>, <<"b@x.com">>, <<"rejected@x.com">>} THEN "valid"
    ELSE IF text = <<"a@no-such-domain.com">> THEN "undeliverable"
    ELSE "invalid"

\* binding of a call made with keyword arguments only
CallBinds(kwargs, params, required) ==
    /\ DOMAIN kwargs \subseteq params
    /\ required \subseteq DOMAIN kwargs

SendEmailParams == {"to_addresses", "subject", "body_html", "from_address"}
SendEmailRequired == {"to_addresses", "subject", "body_html"}
DefaultFromAddress == Str(<<"noreply@example.com">>)

Truthy(x) ==
    IF x.t = "none" THEN FALSE
    ELSE IF x.t = "int" THEN x.v # 0
    ELSE IF x.t = "dict" THEN DOMAIN x.v # {}
    ELSE x.v # <<>>

\* ses_client.send_email: the provider's answer to one request
TransportAnswer(mode, to_addresses) ==
    IF to_addresses.t # "list" \/ \E i \in 1..Len(to_addresses.v) : to_addresses.v[i].t # "str"
    THEN "ParamValidationError"
    ELSE IF mode = "paused" THEN "SendingPausedException"
    ELSE IF \E i \in 1..Len(to_addresses.v) : to_addresses.v[i].v = <<"rejected@x.com">>
    THEN "MessageRejected"
    ELSE "ok"

\* send_email called with keyword arguments kwargs when `calls` requests
\* have been made so far: the requests it makes, and its result or exception
SendEmail(kwargs, mode, calls) ==
    IF ~CallBinds(kwargs, SendEmailParams, SendEmailRequired)
    THEN [ok |-> FALSE, raised |-> "TypeError", requests |-> <<>>, result |-> None]
    ELSE LET sender == IF "from_address" \in DOMAIN kwargs /\ Truthy(kwargs["from_address"])
                       THEN kwargs["from_address"] ELSE DefaultFromAddress
             request == [Source |-> sender,
                         ToAddresses |-> kwargs["to_addresses"],
                         Subject |-> kwargs["subject"],
                         Html |-> kwargs["body_html"]]
             answer == TransportAnswer(mode, kwargs["to_addresses"])
         IN  IF answer = "ok"
             THEN [ok |-> TRUE, raised |-> "", requests |-> <<request>>,
                   result |-> [message_id |-> calls + 1,
                               recipients |-> kwargs["to_addresses"],
                               status |-> "sent"]]
             ELSE [ok |-> FALSE, raised |-> "EmailServiceError",
                   requests |-> <<request>>, result |-> None]

\* ----------------------------------------------------- lambda_handler ----
JsonStr(doc) == [t |-> "str", v |-> <<"json">>, doc |-> doc]
BadJsonStr == Str(<<"not json">>)

\* json.loads of a str value
JsonValid(x) == "doc" \in DOMAIN x
JsonLoads(x) == x.doc

K(name) == <<name>>

RequiredFields ==
    << K("template_name"), K("language"), K("recipient_email"), K("subject"),
       K("template_data") >>

\* the files under templates/<template_name>/<language>.html
TemplateFiles ==
    <<K("greeting"), K("en")>> :> <<"Hello ", "{", "user_first_name", "}">>

\* _load_template
TemplateExists(template_name, language) ==
    /\ template_name.t = "str"
    /\ language.t = "str"
    /\ <<template_name.v, language.v>> \in DOMAIN TemplateFiles

\* a render_template that answers an empty page where it should raise
RenderTemplateSwallowing(template_name, language, data) ==
    IF ~TemplateExists(template_name, language)
    THEN RenderOk(<<>>)
    ELSE LET r == RenderContent(TemplateFiles[<<template_name.v, language.v>>], data)
         IN  IF r.ok THEN r ELSE RenderOk(<<>>)

\* render_template: load, render, any exception becomes one error
RenderTemplate(template_name, language, data) ==
    IF ~TemplateExists(template_name, language)
    THEN RenderFail("Template not found", <<>>)
    ELSE RenderContent(TemplateFiles[<<template_name.v, language.v>>], data)

\* messages and records of the batches
Message(recipient, subject, data, template_name) ==
    Dict(K("template_name") :> Str(K(template_name)) @@ K("language") :> Str(K("en"))
         @@ K("recipient_email") :> recipient @@ K("subject") :> subject
         @@ K("template_data") :> data)

Without(m, key) == Dict([k \in (DOMAIN m.v) \ {key} |-> m.v[k]])

John == Dict(K("user_first_name") :> Str(K("John")))
MsgOk == Message(Str(K("a@x.com")), Str(K("Hi")), John, "greeting")
MsgMissingVar == Message(Str(K("a@x.com")), Str(K("Hi")), Dict(EmptyMap), "greeting")
MsgNoSubject == Without(MsgOk, K("subject"))
MsgBadRecipient == Message(Str(K("not-an-email")), Str(K("Hi")), John, "greeting")
MsgEmptySubject == Message(Str(K("a@x.com")), Str(<<>>), John, "greeting")
MsgDataNotMapping == Message(Str(K("a@x.com")), Str(K("Hi")), Str(K("John")), "greeting")
MsgNoTemplate == Message(Str(K("a@x.com")), Str(K("Hi")), John, "farewell")

Record(body) == Dict(K("body") :> body @@ K("messageId") :> Str(K("id")))

RecOk == Record(JsonStr(MsgOk))
RecMissingVar == Record(JsonStr(MsgMissingVar))
RecMissingVarDecoded == Record(MsgMissingVar)
RecNotMapping == Str(K("record"))
RecNoBody == Without(RecOk, K("body"))
RecNoMessageId == Without(RecOk, K("messageId"))

HandlerRecords ==
    { RecOk, RecMissingVar, RecMissingVarDecoded, RecNotMapping, RecNoBody,
      RecNoMessageId, Record(MsgOk), Record(BadJsonStr), Record(JsonStr(IntV(5))),
      Record(JsonStr(MsgNoSubject)), Record(JsonStr(MsgBadRecipient)),
      Record(JsonStr(MsgEmptySubject)), Record(JsonStr(MsgDataNotMapping)),
      Record(JsonStr(MsgNoTemplate)) }

\* the event: not a mapping at all, or a mapping whose Records key is
\* absent, None, a number, a list, or a mapping (iterated by its keys, which
\* are strings); records is what the loop iterates
Batch(records) == [kind |-> "mapping", rt |-> "list", records |-> records]
HandlerEvents ==
    { [kind |-> "nonmapping", rt |-> "absent", records |-> <<>>] }
        \cup { [kind |-> "mapping", rt |-> rt, records |-> <<>>] : rt \in {"absent", "none", "int"} }
        \cup { [kind |-> "mapping", rt |-> "dict", records |-> rs] : rs \in {<<>>, <<RecNotMapping>>} }
        \cup { Batch(rs) : rs \in BoundedSeq(HandlerRecords, MaxBatch) }

\* a start that takes a missing Records key for a malformed envelope
EnvelopeErrorRecordsRequired(ev, ses_ok) ==
    \/ ev.kind # "mapping"
    \/ ev.rt \in {"none", "int", "absent"}
    \/ ~ses_ok

\* a start that takes any Records value for a batch and builds no service
EnvelopeErrorOnlyNonMapping(ev, ses_ok) == ev.kind # "mapping"

\* lines 36-39: len(event.get('Records', [])) and the construction of the
\* services raise before the loop
EnvelopeError(ev, ses_ok) ==
    \/ ev.kind # "mapping"
    \/ ev.rt \in {"none", "int"}
    \/ ~ses_ok

NoResponse == [statusCode |-> 0, body |-> EmptyMap]
NoInvocation == [records |-> <<>>, response |-> NoResponse]

HandlerInit ==
    /\ event \in HandlerEvents
    /\ ses_available \in BOOLEAN
    /\ hpc = "start"
    /\ idx = 1
    /\ processed_count = 0
    /\ failed_count = 0
    /\ message_body = None
    /\ html_content = <<>>
    /\ stage = ""
    /\ response = NoResponse
    /\ outcome = <<>>
    /\ loads = <<>>
    /\ sends = <<>>
    /\ round = 1
    /\ first = NoInvocation
    /\ ses_calls = <<>>

ErrorResponse ==
    [statusCode |-> 500,
     body |-> [error |-> "exception", message |-> "Failed to process email batch"]]

CountsResponse(p, f) ==
    [statusCode |-> 200, body |-> [processed |-> p, failed |-> f, message |-> <<p, f>>]]

\* lines 35-44
HandlerStart ==
    /\ hpc = "start"
    /\ IF EnvelopeError(event, ses_available)
       THEN /\ response' = ErrorResponse
            /\ hpc' = "done"
       ELSE /\ hpc' = "loop"
            /\ UNCHANGED response
    /\ UNCHANGED <<event, ses_available, idx, processed_count, failed_count,
                   message_body, html_content, stage, outcome, loads, sends,
                   ses_calls>>
    /\ UNCHANGED <<rvars, pvars, ovars, bvars, qvars, svars>>

Raise(at) ==
    /\ stage' = at
    /\ hpc' = "except"

\* lines 47-52: record['body'], json.loads, record['messageId']
RecordParse ==
    /\ hpc = "loop"
    /\ idx <= Len(event.records)
    /\ LET record == event.records[idx] IN
       IF \/ record.t # "dict"
          \/ K("body") \notin DOMAIN record.v
          \/ (record.v[K("body")].t = "str" /\ ~JsonValid(record.v[K("body")]))
          \/ K("messageId") \notin DOMAIN record.v
       THEN /\ Raise("parse")
            /\ UNCHANGED message_body
       ELSE /\ message_body' = IF record.v[K("body")].t = "str"
                               THEN JsonLoads(record.v[K("body")])
                               ELSE record.v[K("body")]
            /\ hpc' = "validate"
            /\ UNCHANGED stage
    /\ UNCHANGED <<event, ses_available, idx, processed_count, failed_count,
                   html_content, response, outcome, loads, sends, ses_calls>>
    /\ UNCHANGED <<rvars, pvars, ovars, bvars, qvars, svars>>

\* `field not in message_body` for each required field
MissingRequired(body) ==
    \/ body.t # "dict"
    \/ \E i \in 1..Len(RequiredFields) : RequiredFields[i] \notin DOMAIN body.v

\* lines 55-64
RecordValidate ==
    /\ hpc = "validate"
    /\ IF MissingRequired(message_body)
       THEN Raise("validate")
       ELSE /\ hpc' = "render"
            /\ UNCHANGED stage
    /\ UNCHANGED <<event, ses_available, idx, processed_count, failed_count,
                   message_body, html_content, response, outcome, loads, sends,
                   ses_calls>>
    /\ UNCHANGED <<rvars, pvars, ovars, bvars, qvars, svars>>

\* lines 67-71
RecordRender ==
    /\ hpc = "render"
    /\ loads' = Append(loads, idx)
    /\ LET r == RenderTemplate(message_body.v[K("template_name")],
                               message_body.v[K("language")],
                               message_body.v[K("template_data")])
       IN  IF r.ok
           THEN /\ html_content' = r.out
                /\ hpc' = "send"
                /\ UNCHANGED stage
           ELSE /\ Raise("render")
                /\ UNCHANGED html_content
    /\ UNCHANGED <<event, ses_available, idx, processed_count, failed_count,
                   message_body, response, outcome, sends, ses_calls>>
    /\ UNCHANGED <<rvars, pvars, ovars, bvars, qvars, svars>>

\* the keyword arguments of the call at lines 74-78
HandlerSendKwargs ==
    "recipient_email" :> message_body.v[K("recipient_email")]
        @@ "subject" :> message_body.v[K("subject")]
        @@ "html_content" :> Str(html_content)

\* a send that counts the record as processed before send_email is called
RecordSendCountingFirst ==
    /\ hpc = "send"
    /\ sends' = Append(sends, idx)
    /\ processed_count' = processed_count + 1
    /\ LET r == SendEmail(HandlerSendKwargs, "ok", Len(ses_calls)) IN
       /\ ses_calls' = ses_calls \o r.requests
       /\ IF r.ok
          THEN /\ outcome' = Append(outcome, "sent")
               /\ idx' = idx + 1
               /\ hpc' = "loop"
               /\ UNCHANGED stage
          ELSE /\ Raise("send")
               /\ UNCHANGED <<outcome, idx>>
    /\ UNCHANGED <<event, ses_available, failed_count, message_body,
                   html_content, response, loads>>
    /\ UNCHANGED <<rvars, pvars, ovars, bvars, qvars, svars>>

\* a send that calls send_email a second time when the first call raises
RecordSendRetrying ==
    /\ hpc = "send"
    /\ LET r == SendEmail(HandlerSendKwargs, "ok", Len(ses_calls)) IN
       /\ sends' = IF r.ok THEN Append(sends, idx) ELSE Append(Append(sends, idx), idx)
       /\ ses_calls' = ses_calls \o r.requests \o (IF r.ok THEN <<>> ELSE r.requests)
       /\ IF r.ok
          THEN /\ processed_count' = processed_count + 1
               /\ outcome' = Append(outcome, "sent")
               /\ idx' = idx + 1
               /\ hpc' = "loop"
               /\ UNCHANGED stage
          ELSE /\ Raise("send")
               /\ UNCHANGED <<processed_count, outcome, idx>>
    /\ UNCHANGED <<event, ses_available, failed_count, message_body,
                   html_content, response, loads>>
    /\ UNCHANGED <<rvars, pvars, ovars, bvars, qvars, svars>>

\* lines 74-81
RecordSend ==
    /\ hpc = "send"
    /\ sends' = Append(sends, idx)
    /\ LET r == SendEmail(HandlerSendKwargs, "ok", Len(ses_calls)) IN
       /\ ses_calls' = ses_calls \o r.requests
       /\ IF r.ok
          THEN /\ processed_count' = processed_count + 1
               /\ outcome' = Append(outcome, "sent")
               /\ idx' = idx + 1
               /\ hpc' = "loop"
               /\ UNCHANGED stage
          ELSE /\ Raise("send")
               /\ UNCHANGED <<processed_count, outcome, idx>>
    /\ UNCHANGED <<event, ses_available, failed_count, message_body,
                   html_content, response, loads>>
    /\ UNCHANGED <<rvars, pvars, ovars, bvars, qvars, svars>>

\* an except clause that answers the counts so far where the log line raises
RecordExceptReportingPartial ==
    /\ hpc = "except"
    /\ failed_count' = failed_count + 1
    /\ outcome' = Append(outcome, stage)
    /\ IF event.records[idx].t # "dict"
       THEN /\ response' = CountsResponse(processed_count, failed_count + 1)
            /\ hpc' = "done"
            /\ UNCHANGED idx
       ELSE /\ idx' = idx + 1
            /\ hpc' = "loop"
            /\ UNCHANGED response
    /\ UNCHANGED <<event, ses_available, processed_count, message_body,
                   html_content, stage, loads, sends, ses_calls>>
    /\ UNCHANGED <<rvars, pvars, ovars, bvars, qvars, svars>>

\* lines 83-85: the count, then record.get('messageId', 'unknown') for the
\* log line; a record without .get raises out of the handler of the loop
RecordExcept ==
    /\ hpc = "except"
    /\ failed_count' = failed_count + 1
    /\ outcome' = Append(outcome, stage)
    /\ IF event.records[idx].t # "dict"
       THEN /\ response' = ErrorResponse
            /\ hpc' = "done"
            /\ UNCHANGED idx
       ELSE /\ idx' = idx + 1
            /\ hpc' = "loop"
            /\ UNCHANGED response
    /\ UNCHANGED <<event, ses_available, processed_count, message_body,
                   html_content, stage, loads, sends, ses_calls>>
    /\ UNCHANGED <<rvars, pvars, ovars, bvars, qvars, svars>>

\* lines 87-96
HandlerReturn ==
    /\ hpc = "loop"
    /\ idx > Len(event.records)
    /\ response' = CountsResponse(processed_count, failed_count)
    /\ hpc' = "done"
    /\ UNCHANGED <<event, ses_available, idx, processed_count, failed_count,
                   message_body, html_content, stage, outcome, loads, sends,
                   ses_calls>>
    /\ UNCHANGED <<rvars, pvars, ovars, bvars, qvars, svars>>

\* the orders in which the records of a batch can be delivered
Reordered(records) ==
    { [i \in 1..Len(records) |-> records[p[i]]] :
        p \in { q \in [1..Len(records) -> 1..Len(records)] :
                  \A i, j \in 1..Len(records) : q[i] = q[j] => i = j } }

\* line 10 again: the records of a finished invocation are delivered, in some
\* order, to a new invocation, whose locals start afresh (lines 38-42)
Redeliver ==
    /\ hpc = "done"
    /\ round = 1
    /\ round' = 2
    /\ first' = [records |-> event.records, response |-> response]
    /\ \E rs \in Reordered(event.records) : event' = [event EXCEPT !.records = rs]
    /\ hpc' = "start"
    /\ idx' = 1
    /\ processed_count' = 0
    /\ failed_count' = 0
    /\ message_body' = None
    /\ html_content' = <<>>
    /\ stage' = ""
    /\ response' = NoResponse
    /\ outcome' = <<>>
    /\ loads' = <<>>
    /\ sends' = <<>>
    /\ UNCHANGED <<ses_available, ses_calls>>
    /\ UNCHANGED <<rvars, pvars, bvars, qvars, svars>>

\* ------------------------------------------ EmailService.send_bulk_email ----
\* jinja2: the atom "{{ name }}" is a variable reference, the atom "{% if"
\* is a statement that is never closed (TemplateSyntaxError)
JinjaAtom(c, data) ==
    IF c = "{{ name }}"
    THEN IF K("name") \in DOMAIN data /\ data[K("name")].t # "none"
         THEN PyStr(data[K("name")])
         ELSE <<>>
    ELSE <<c>>

\* Template(text).render(**data)
JinjaRender(text, data) ==
    IF \E i \in 1..Len(text) : text[i] = "{% if"
    THEN [ok |-> FALSE, out |-> <<>>]
    ELSE IF data.t # "dict"
    THEN [ok |-> FALSE, out |-> <<>>]
    ELSE [ok |-> TRUE, out |-> Concat([i \in 1..Len(text) |-> JinjaAtom(text[i], data.v)])]

BulkSubject == <<"Hi ", "{{ name }}">>
BulkBodies == { <<"Dear ", "{{ name }}">>, <<"{% if">> }

BulkEmails == {Str(K("a@x.com")), Str(K("b@x.com")), Str(K("rejected@x.com"))}
BulkData == {Dict(K("name") :> Str(K("Ann"))), Str(K("Ann"))}
BulkDestinations ==
    { Dict(f) : f \in UNION { { K("email") :> e @@ K("template_data") :> d,
                                K("email") :> e,
                                K("template_data") :> d,
                                EmptyMap } : e \in BulkEmails, d \in BulkData } }

\* dest.get(key, default)
Get(dest, key, default) == IF key \in DOMAIN dest.v THEN dest.v[key] ELSE default

BulkInit ==
    /\ destinations \in BoundedSeq(BulkDestinations, MaxDests)
    /\ body_html \in BulkBodies
    /\ ses_mode \in {"ok", "paused"}
    /\ bpc = "loop"
    /\ bi = 1
    /\ results = <<>>
    /\ ses_calls = <<>>

FailedEntry(dest, error) ==
    [email |-> Get(dest, K("email"), None), status |-> "failed", error |-> error]

\* the body of the loop for destinations[bi]: what it sends and the entry it
\* appends
BulkOne(dest) ==
    LET data == Get(dest, K("template_data"), Dict(EmptyMap))
        personalized_subject == JinjaRender(BulkSubject, data)
        personalized_body == JinjaRender(body_html, data)
    IN  IF ~personalized_subject.ok \/ ~personalized_body.ok
        THEN [requests |-> <<>>, entry |-> FailedEntry(dest, "render")]
        ELSE IF K("email") \notin DOMAIN dest.v
        THEN [requests |-> <<>>, entry |-> FailedEntry(dest, "KeyError")]
        ELSE LET r == SendEmail("to_addresses" :> List(<<dest.v[K("email")]>>)
                                    @@ "subject" :> Str(personalized_subject.out)
                                    @@ "body_html" :> Str(personalized_body.out)
                                    @@ "from_address" :> None,
                                ses_mode, Len(ses_calls))
             IN  [requests |-> r.requests,
                  entry |-> IF r.ok THEN r.result ELSE FailedEntry(dest, r.raised)]

\* a loop whose failure leaves the loop instead of being recorded
BulkStepAbortOnFailure ==
    /\ bpc = "loop"
    /\ bi <= Len(destinations)
    /\ LET one == BulkOne(destinations[bi]) IN
       /\ ses_calls' = ses_calls \o one.requests
       /\ IF one.entry.status = "failed"
          THEN /\ bpc' = "done"
               /\ UNCHANGED <<results, bi>>
          ELSE /\ results' = Append(results, one.entry)
               /\ bi' = bi + 1
               /\ UNCHANGED bpc
    /\ UNCHANGED <<destinations, body_html, ses_mode>>
    /\ UNCHANGED <<rvars, pvars, hvars, ovars, qvars, svars>>

\* lines 133-152
BulkStep ==
    /\ bpc = "loop"
    /\ bi <= Len(destinations)
    /\ LET one == BulkOne(destinations[bi]) IN
       /\ ses_calls' = ses_calls \o one.requests
       /\ results' = Append(results, one.entry)
    /\ bi' = bi + 1
    /\ UNCHANGED <<destinations, body_html, ses_mode, bpc>>
    /\ UNCHANGED <<rvars, pvars, hvars, ovars, qvars, svars>>

\* line 154
BulkReturn ==
    /\ bpc = "loop"
    /\ bi > Len(destinations)
    /\ bpc' = "done"
    /\ UNCHANGED <<destinations, body_html, ses_mode, bi, results, ses_calls>>
    /\ UNCHANGED <<rvars, pvars, hvars, ovars, qvars, svars>>

\* ----------------------------------------------- SQSService.parse_message ----
Return(value) == [ok |-> TRUE, value |-> value, raised |-> ""]
Raised(kind) == [ok |-> FALSE, value |-> None, raised |-> kind]

\* validate_email(x) with the library's defaults, which also look the domain
\* up: "" when it returns, else the exception
ValidateEmail(x) ==
    IF x.t # "str" THEN "AttributeError"
    ELSE IF AddressClass(x.v) = "valid" THEN ""
    ELSE "EmailNotValidError"

SqsRequiredFields ==
    << K("template_bucket"), K("template_key"), K("to_addresses"), K("subject"),
       K("template_data") >>

\* the loop over to_addresses: "" or the exception of the first bad address
RECURSIVE CheckAddresses(_, _)
CheckAddresses(addrs, i) ==
    IF i > Len(addrs) THEN ""
    ELSE IF addrs[i].t # "str" THEN "SQSServiceError"
    ELSE IF ValidateEmail(addrs[i]) = "EmailNotValidError" THEN "SQSServiceError"
    ELSE CheckAddresses(addrs, i + 1)

\* subject.strip() is empty
IsBlank(text) == \A i \in 1..Len(text) : text[i] = " "

\* _validate_message_data: "" when it returns, else the exception it raises
ValidateMessageData(data) ==
    IF data.t \in {"int", "none"} THEN "TypeError"
    ELSE IF data.t # "dict" THEN "SQSServiceError"
    ELSE IF \E i \in 1..Len(SqsRequiredFields) : SqsRequiredFields[i] \notin DOMAIN data.v
    THEN "SQSServiceError"
    ELSE LET to == data.v[K("to_addresses")]
             from == Get(data, K("from_address"), None)
             subject == data.v[K("subject")]
         IN  IF to.t # "list" THEN "SQSServiceError"
             ELSE IF to.v = <<>> THEN "SQSServiceError"
             ELSE IF CheckAddresses(to.v, 1) # "" THEN CheckAddresses(to.v, 1)
             ELSE IF Truthy(from) /\ ValidateEmail(from) = "EmailNotValidError"
             THEN "SQSServiceError"
             ELSE IF Truthy(from) /\ ValidateEmail(from) # "" THEN ValidateEmail(from)
             ELSE IF data.v[K("template_data")].t # "dict" THEN "SQSServiceError"
             ELSE IF subject.t # "str" \/ IsBlank(subject.v) THEN "SQSServiceError"
             ELSE ""

\* the try block of parse_message
ParseBody(record) ==
    IF record.t # "dict" THEN Raised("AttributeError")
    ELSE LET body == Get(record, K("body"), None) IN
         IF ~Truthy(body) THEN Raised("SQSServiceError")
         ELSE IF body.t # "str" THEN Raised("TypeError")
         ELSE IF ~JsonValid(body) THEN Raised("SQSServiceError")
         ELSE LET message_data == JsonLoads(body)
                  v == ValidateMessageData(message_data)
              IN  IF v = "" THEN Return(message_data) ELSE Raised(v)

\* a parse_message without its outer except clause
ParseMessageNoWrap(record) == ParseBody(record)

\* parse_message: an exception that is not an SQSServiceError is wrapped
ParseMessage(record) ==
    LET r == ParseBody(record) IN
    IF r.ok \/ r.raised = "SQSServiceError" THEN r ELSE Raised("SQSServiceError")

\* the messages and records given to parse_message
SqsAddresses ==
    { Str(K("a@x.com")), Str(K("not-an-email")), Str(K("a@no-such-domain.com")), IntV(7) }
Absent == [t |-> "absent"]
SqsTo == {Absent, Str(K("a@x.com"))} \cup {List(l) : l \in BoundedSeq(SqsAddresses, MaxAddrs)}
SqsSubject == {Absent, Str(K("Hi")), Str(<<" ">>), Str(<<>>), IntV(7)}
SqsFrom ==
    { Absent, Str(<<>>), None, Str(K("b@x.com")), Str(K("not-an-email")), IntV(7) }
SqsData == {Absent, Dict(EmptyMap), Str(K("x"))}
SqsLocator == { {K("template_bucket"), K("template_key")}, {K("template_bucket")},
                {K("template_key")} }

SqsMessage(loc, to, subject, from, data) ==
    LET all == K("to_addresses") :> to @@ K("subject") :> subject
                   @@ K("from_address") :> from @@ K("template_data") :> data
                   @@ [k \in loc |-> Str(K("x"))]
    IN  Dict([k \in {k \in DOMAIN all : all[k] # Absent} |-> all[k]])

SqsMessages ==
    { SqsMessage(loc, to, subject, from, data) :
        loc \in SqsLocator, to \in SqsTo, subject \in SqsSubject,
        from \in SqsFrom, data \in SqsData }

SqsBody(body) == Dict(K("body") :> body)

SqsRecords ==
    { SqsBody(JsonStr(m)) : m \in SqsMessages }
        \cup { Str(K("record")), Dict(EmptyMap), SqsBody(Str(<<>>)), SqsBody(BadJsonStr),
               SqsBody(Dict(EmptyMap)), SqsBody(JsonStr(IntV(5))),
               SqsBody(JsonStr(List(<<>>))), SqsBody(JsonStr(Str(K("x")))) }

ParseInit ==
    /\ qpc = "call"
    /\ qrecord \in SqsRecords
    /\ qresult = Raised("")

ParseCall ==
    /\ qpc = "call"
    /\ qresult' = ParseMessage(qrecord)
    /\ qpc' = "done"
    /\ UNCHANGED qrecord
    /\ UNCHANGED <<rvars, pvars, hvars, ovars, bvars, svars, ses_calls>>

\* -------------------------------------------- S3Service.get_template ----
\* the object store: the buckets that exist, the bytes of the objects in
\* them, and a failure of the credentials or of the transport
S3Buckets == {"templates", "archive"}
S3Keys == {"greeting/en.html", "farewell/en.html"}

Utf8(text) == [utf8 |-> TRUE, text |-> text]
BadBytes == [utf8 |-> FALSE, text |-> <<>>]
S3Contents == {Utf8(<<"Hello ", "{", "user_first_name", "}">>), BadBytes}

S3Faults == {"none", "AccessDenied", "NoCredentialsError", "EndpointConnectionError"}

S3Stores ==
    UNION { { [buckets |-> bs, objects |-> os] :
                os \in UNION { [D -> S3Contents] : D \in SUBSET (bs \X S3Keys) } } :
            bs \in SUBSET S3Buckets }

\* s3_client.get_object(Bucket=bucket, Key=key): the body of the object, a
\* ClientError with the error code of the store, or another exception
GetObject(buckets, objects, fault, bucket, key) ==
    IF fault \in {"NoCredentialsError", "EndpointConnectionError"}
    THEN [kind |-> "Exception", code |-> fault, body |-> BadBytes]
    ELSE IF fault = "AccessDenied"
    THEN [kind |-> "ClientError", code |-> "AccessDenied", body |-> BadBytes]
    ELSE IF bucket \notin buckets
    THEN [kind |-> "ClientError", code |-> "NoSuchBucket", body |-> BadBytes]
    ELSE IF <<bucket, key>> \notin DOMAIN objects
    THEN [kind |-> "ClientError", code |-> "NoSuchKey", body |-> BadBytes]
    ELSE [kind |-> "ok", code |-> "", body |-> objects[<<bucket, key>>]]

S3Return(text) == [ok |-> TRUE, value |-> Str(text), raised |-> "", message |-> ""]
S3Raise(message) ==
    [ok |-> FALSE, value |-> None, raised |-> "S3ServiceError", message |-> message]

\* get_template: read and decode the body; every exception is raised again
\* as S3ServiceError, the error code choosing the words of the message
GetTemplate(buckets, objects, fault, bucket, key) ==
    LET answer == GetObject(buckets, objects, fault, bucket, key) IN
    IF answer.kind = "ok"
    THEN IF answer.body.utf8 THEN S3Return(answer.body.text)
         ELSE S3Raise("Unexpected error retrieving template")
    ELSE IF answer.kind = "ClientError"
    THEN IF answer.code = "NoSuchBucket" THEN S3Raise("S3 bucket does not exist")
         ELSE IF answer.code = "NoSuchKey" THEN S3Raise("Template not found in bucket")
         ELSE S3Raise("Failed to retrieve template")
    ELSE S3Raise("Unexpected error retrieving template")

S3Init ==
    /\ spc = "call"
    /\ \E store \in S3Stores :
        /\ s3_buckets = store.buckets
        /\ s3_objects = store.objects
    /\ s3_fault \in S3Faults
    /\ req_bucket \in S3Buckets
    /\ req_key \in S3Keys
    /\ sresult = S3Raise("")

S3Call ==
    /\ spc = "call"
    /\ sresult' = GetTemplate(s3_buckets, s3_objects, s3_fault, req_bucket, req_key)
    /\ spc' = "done"
    /\ UNCHANGED <<s3_buckets, s3_objects, s3_fault, req_bucket, req_key>>
    /\ UNCHANGED <<rvars, pvars, hvars, ovars, bvars, qvars, ses_calls>>

\* ----------------------------------------------------- specifications ----
RenderIdle ==
    /\ rpc = "idle"
    /\ template_content = <<>>
    /\ template_data = None
    /\ rendered = RenderFail("", <<>>)

ProcessIdle ==
    /\ ppc = "idle"
    /\ pin = EmptyMap
    /\ pout = EmptyMap

HandlerIdle ==
    /\ event = Batch(<<>>)
    /\ ses_available = TRUE
    /\ hpc = "idle"
    /\ idx = 1
    /\ processed_count = 0
    /\ failed_count = 0
    /\ message_body = None
    /\ html_content = <<>>
    /\ stage = ""
    /\ response = NoResponse
    /\ outcome = <<>>
    /\ loads = <<>>
    /\ sends = <<>>
    /\ round = 0
    /\ first = NoInvocation

BulkIdle ==
    /\ destinations = <<>>
    /\ body_html = <<>>
    /\ ses_mode = "ok"
    /\ bpc = "idle"
    /\ bi = 1
    /\ results = <<>>

ParseIdle ==
    /\ qpc = "idle"
    /\ qrecord = None
    /\ qresult = Raised("")

S3Idle ==
    /\ spc = "idle"
    /\ s3_buckets = {}
    /\ s3_objects = EmptyMap
    /\ s3_fault = "none"
    /\ req_bucket = ""
    /\ req_key = ""
    /\ sresult = S3Raise("")

\* an invocation of lambda_handler
Init == HandlerInit /\ RenderIdle /\ ProcessIdle /\ BulkIdle /\ ParseIdle /\ S3Idle

Next ==
    \/ HandlerStart
    \/ RecordParse
    \/ RecordValidate
    \/ RecordRender
    \/ RecordSend
    \/ RecordExcept
    \/ HandlerReturn

Spec == Init /\ [][Next]_vars

\* an invocation of lambda_handler and a second one on the same records
InitOrder == HandlerInit /\ RenderIdle /\ ProcessIdle /\ BulkIdle /\ ParseIdle /\ S3Idle

NextOrder ==
    \/ HandlerStart
    \/ RecordParse
    \/ RecordValidate
    \/ RecordRender
    \/ RecordSend
    \/ RecordExcept
    \/ HandlerReturn
    \/ Redeliver

SpecOrder == InitOrder /\ [][NextOrder]_vars

\* a call of _render_content
InitRender ==
    /\ RenderInit /\ ProcessIdle /\ HandlerIdle /\ BulkIdle /\ ParseIdle /\ S3Idle
    /\ ses_calls = <<>>

NextRender == RenderCall

SpecRender == InitRender /\ [][NextRender]_vars

\* a call of _process_template_data
InitProcess ==
    /\ ProcessInit /\ RenderIdle /\ HandlerIdle /\ BulkIdle /\ ParseIdle /\ S3Idle
    /\ ses_calls = <<>>

NextProcess == ProcessCall

SpecProcess == InitProcess /\ [][NextProcess]_vars

\* a call of send_bulk_email
InitBulk == BulkInit /\ RenderIdle /\ ProcessIdle /\ HandlerIdle /\ ParseIdle /\ S3Idle

NextBulk ==
    \/ BulkStep
    \/ BulkReturn

SpecBulk == InitBulk /\ [][NextBulk]_vars

\* a call of parse_message
InitParse ==
    /\ ParseInit /\ RenderIdle /\ ProcessIdle /\ HandlerIdle /\ BulkIdle /\ S3Idle
    /\ ses_calls = <<>>

NextParse == ParseCall

SpecParse == InitParse /\ [][NextParse]_vars

\* a call of get_template
InitS3 ==
    /\ S3Init /\ RenderIdle /\ ProcessIdle /\ HandlerIdle /\ BulkIdle /\ ParseIdle
    /\ ses_calls = <<>>

NextS3 == S3Call

SpecS3 == InitS3 /\ [][NextS3]_vars

\* --------------------------------------------- lambda_handler: claims ----
\* the envelope is a mapping with a list of records and the services exist
IterationBegun == event.kind = "mapping" /\ event.rt = "list" /\ ses_available

FailedRecords == Cardinality({i \in 1..Len(outcome) : outcome[i] # "sent"})

\* C1: a batch of N records of which M fail is iterated to its end and
\* answered with statusCode 200, processed = N - M and failed = M.
C1_AsStated ==
    (hpc = "done" /\ IterationBegun) =>
        /\ response.statusCode = 200
        /\ Len(outcome) = Len(event.records)
        /\ response.body.failed = FailedRecords
        /\ response.body.processed = Len(event.records) - FailedRecords

\* C2: once the loop has begun, no record, whatever its content, makes the
\* invocation answer 500 or end before the last record.
C2_AsStated ==
    IterationBegun =>
        /\ response.statusCode # 500
        /\ hpc = "done" => idx = Len(event.records) + 1

\* C3: the batch of the one valid record with data for its template sends
\* one email with body `Hello John` and answers processed 1, failed 0.
C3_AsStated ==
    (hpc = "done" /\ ses_available /\ event = Batch(<<RecOk>>)) =>
        /\ response = CountsResponse(1, 0)
        /\ Len(ses_calls) = 1
        /\ ses_calls[1].Html = Str(<<"Hello ", "John">>)

MissingVarBatches == {Batch(<<r>>) : r \in {RecMissingVar, RecMissingVarDecoded}}

\* C4: the batch of one valid record whose template_data lacks a placeholder
\* of the template fails at rendering, sends nothing and answers 200 with
\* processed 0 and failed 1.
C4_MissingVariable ==
    (hpc = "done" /\ ses_available /\ event \in MissingVarBatches) =>
        /\ response.statusCode = 200
        /\ response.body.processed = 0
        /\ response.body.failed = 1
        /\ outcome = <<"render">>
        /\ ses_calls = <<>>

C4_Witness ==
    /\ hpc = "done"
    /\ ses_available
    /\ event = Batch(<<RecMissingVar>>)
    /\ loads = <<1>>
    /\ response.statusCode = 200
    /\ response.body.failed = 1

\* the message a record carries, None when it carries none
RecordMessage(record) ==
    IF record.t # "dict" \/ K("body") \notin DOMAIN record.v THEN None
    ELSE IF record.v[K("body")].t # "str" THEN record.v[K("body")]
    ELSE IF JsonValid(record.v[K("body")]) THEN JsonLoads(record.v[K("body")])
    ELSE None

SyntaxValid(x) == x.t = "str" /\ AddressClass(x.v) \in {"valid", "undeliverable"}

FieldsValid(m) ==
    /\ m.t = "dict"
    /\ \A i \in 1..Len(RequiredFields) : RequiredFields[i] \in DOMAIN m.v
    /\ SyntaxValid(m.v[K("recipient_email")])
    /\ m.v[K("subject")].t = "str"
    /\ ~IsBlank(m.v[K("subject")].v)
    /\ m.v[K("template_data")].t = "dict"

\* C5: a template is loaded only for a record whose five required fields
\* are present and individually valid.
C5_AsStated ==
    \A j \in 1..Len(loads) : FieldsValid(RecordMessage(event.records[loads[j]]))

C15_EmptyBatch ==
    (/\ hpc = "done"
     /\ ses_available
     /\ event.kind = "mapping"
     /\ \/ event.rt = "absent"
        \/ event.rt = "list" /\ event.records = <<>>) =>
        /\ response = CountsResponse(0, 0)
        /\ response.statusCode = 200
        /\ ses_calls = <<>>
        /\ sends = <<>>
        /\ loads = <<>>
        /\ outcome = <<>>

\* the event without a Records key has been answered
C15_Witness ==
    /\ hpc = "done"
    /\ ses_available
    /\ event.kind = "mapping"
    /\ event.rt = "absent"
    /\ response.statusCode = 200
    /\ response.body.processed = 0
    /\ response.body.failed = 0

Increasing(seq) == \A i, j \in 1..Len(seq) : i < j => seq[i] < seq[j]

\* the record carries a message with the five fields whose template renders
RecordReady(record) ==
    LET m == RecordMessage(record) IN
    /\ record.t = "dict"
    /\ ~MissingRequired(m)
    /\ RenderTemplate(m.v[K("template_name")], m.v[K("language")],
                      m.v[K("template_data")]).ok

\* C13: send_email is called at most once for a record, in the order of the
\* records and only for a record that passed the field check and whose
\* template was loaded and rendered; the transport gets at most one request
\* per call; a record whose send failed is not sent again; and while a
\* record is in the pipeline every record before it has its outcome and no
\* record after it has been touched.
C13_SendOnce ==
    /\ Increasing(sends)
    /\ Increasing(loads)
    /\ Len(ses_calls) <= Len(sends)
    /\ \A j \in 1..Len(sends) :
          /\ \E k \in 1..Len(loads) : loads[k] = sends[j]
          /\ RecordReady(event.records[sends[j]])
    /\ \A i \in 1..Len(outcome) :
          outcome[i] = "send" => Cardinality({j \in 1..Len(sends) : sends[j] = i}) = 1
    /\ hpc \in {"loop", "validate", "render", "send", "except"} =>
          /\ Len(outcome) = idx - 1
          /\ \A j \in 1..Len(sends) : sends[j] <= idx
          /\ \A k \in 1..Len(loads) : loads[k] <= idx
    /\ hpc = "send" => (\A j \in 1..Len(sends) : sends[j] < idx)

\* the send of the first record failed and was not repeated; the second
\* record was taken after it and its send was attempted once as well
C13_Witness ==
    /\ hpc = "done"
    /\ Len(event.records) = 2
    /\ RecordReady(event.records[1])
    /\ outcome = <<"send", "send">>
    /\ loads = <<1, 2>>
    /\ sends = <<1, 2>>
    /\ response = CountsResponse(0, 2)

\* the requests the transport accepted
SuccessfulSends ==
    Cardinality({j \in 1..Len(ses_calls) :
                    TransportAnswer("ok", ses_calls[j].ToAddresses) = "ok"})

\* the records whose pipeline has ended: none when the loop is not entered,
\* else those before the current one, and the current one as well once the
\* except clause has counted it and ended the loop
Handled ==
    IF hpc = "start" \/ EnvelopeError(event, ses_available) THEN 0
    ELSE IF hpc = "done" /\ response.statusCode = 500 THEN idx
    ELSE idx - 1

\* C14: at every point of the loop the two counters add up to the number of
\* records handled so far, each handled record being counted in
\* failed_count when its pipeline raised and in processed_count otherwise,
\* and processed_count is the number of sends the transport accepted.
C14_CountedOnce ==
    /\ processed_count + failed_count = Handled
    /\ Len(outcome) = Handled
    /\ failed_count = FailedRecords
    /\ processed_count = Handled - FailedRecords
    /\ processed_count = SuccessfulSends

\* in the middle of a batch of two: one record handled and counted as failed
C14_Witness ==
    /\ hpc = "loop"
    /\ Len(event.records) = 2
    /\ idx = 2
    /\ sends = <<1>>
    /\ processed_count = 0
    /\ failed_count = 1

\* C12: the records of a batch delivered in any other order get the same
\* answer: the same statusCode and, where the answer carries counts, the
\* same processed and failed counts (the outcome of a record depends on the
\* record alone, so it is the same in both orders).
C12_OrderIndependent ==
    (round = 2 /\ hpc = "done") =>
        /\ response.statusCode = first.response.statusCode
        /\ DOMAIN response.body = DOMAIN first.response.body
        /\ "processed" \in DOMAIN response.body =>
              /\ response.body.processed = first.response.body.processed
              /\ response.body.failed = first.response.body.failed

\* two records failing at different steps, handled in both orders
C12_Witness ==
    /\ round = 2
    /\ hpc = "done"
    /\ Len(event.records) = 2
    /\ event.records # first.records
    /\ outcome = <<"parse", "send">>
    /\ response = CountsResponse(0, 2)
    /\ first.response = CountsResponse(0, 2)

\* -------------------------------------------- send_bulk_email: claims ----
DestRenders(dest) ==
    /\ Get(dest, K("template_data"), Dict(EmptyMap)).t = "dict"
    /\ \A i \in 1..Len(body_html) : body_html[i] # "{% if"

DestAttempted(dest) == DestRenders(dest) /\ K("email") \in DOMAIN dest.v

DestFails(dest) ==
    \/ ~DestAttempted(dest)
    \/ ses_mode = "paused"
    \/ dest.v[K("email")] = Str(K("rejected@x.com"))

\* C9: send_bulk_email returns one entry per destination in input order; a
\* destination whose rendering or send fails gets a `failed` entry of its
\* own, and every destination that renders is sent to the transport.
C9_BulkIsolation ==
    bpc = "done" =>
        /\ Len(results) = Len(destinations)
        /\ \A i \in 1..Len(destinations) :
            IF DestFails(destinations[i])
            THEN /\ results[i].status = "failed"
                 /\ results[i].email = Get(destinations[i], K("email"), None)
            ELSE /\ results[i].status = "sent"
                 /\ results[i].recipients = List(<<destinations[i].v[K("email")]>>)
        /\ [j \in 1..Len(ses_calls) |-> ses_calls[j].ToAddresses]
            = [j \in 1..Len(SelectSeq(destinations, DestAttempted)) |->
                  List(<<SelectSeq(destinations, DestAttempted)[j].v[K("email")]>>)]

\* the first destination is rejected by the transport, the second is sent
C9_Witness ==
    /\ bpc = "done"
    /\ ses_mode = "ok"
    /\ Len(destinations) = 2
    /\ DestAttempted(destinations[1])
    /\ destinations[1].v[K("email")] = Str(K("rejected@x.com"))
    /\ results[1].status = "failed"
    /\ results[2].status = "sent"

\* ---------------------------------------------- parse_message: claims ----
Accepted(x) == x.t = "str" /\ AddressClass(x.v) = "valid"

HasMessage(record) ==
    /\ record.t = "dict"
    /\ K("body") \in DOMAIN record.v
    /\ record.v[K("body")].t = "str"
    /\ JsonValid(record.v[K("body")])

\* the conditions on a decoded message; AddressOk judges an address and
\* SenderGiven says when a from_address counts as present
MessageConditions(m, AddressOk(_), SenderGiven(_)) ==
    /\ m.t = "dict"
    /\ \A i \in 1..Len(SqsRequiredFields) : SqsRequiredFields[i] \in DOMAIN m.v
    /\ m.v[K("to_addresses")].t = "list"
    /\ m.v[K("to_addresses")].v # <<>>
    /\ \A i \in 1..Len(m.v[K("to_addresses")].v) : AddressOk(m.v[K("to_addresses")].v[i])
    /\ SenderGiven(m) => AddressOk(m.v[K("from_address")])
    /\ m.v[K("subject")].t = "str"
    /\ ~IsBlank(m.v[K("subject")].v)
    /\ m.v[K("template_data")].t = "dict"

SenderPresent(m) == K("from_address") \in DOMAIN m.v
SenderNonEmpty(m) == K("from_address") \in DOMAIN m.v /\ Truthy(m.v[K("from_address")])

\* C10 (as stated): parse_message returns the decoded message exactly when
\* the body is valid structured data, the five fields are present, the
\* recipients are a non-empty list of syntactically valid addresses, a
\* present from_address is valid, the subject is a non-blank string and
\* template_data is a mapping; otherwise it raises SQSServiceError.
C10_AsStated ==
    qpc = "done" =>
        /\ qresult.ok <=>
              (HasMessage(qrecord)
                  /\ MessageConditions(JsonLoads(qrecord.v[K("body")]), SyntaxValid, SenderPresent))
        /\ qresult.ok => qresult.value = JsonLoads(qrecord.v[K("body")])
        /\ ~qresult.ok => qresult.raised = "SQSServiceError"

\* C10 (amended): as stated, with "valid address" meaning accepted by
\* validate_email (syntax and domain look-up) and a from_address checked
\* only when it is present and not empty (truthy).
C10_ParseMessage ==
    qpc = "done" =>
        /\ qresult.ok <=>
              (HasMessage(qrecord)
                  /\ MessageConditions(JsonLoads(qrecord.v[K("body")]), Accepted, SenderNonEmpty))
        /\ qresult.ok => qresult.value = JsonLoads(qrecord.v[K("body")])
        /\ ~qresult.ok => qresult.raised = "SQSServiceError"

\* a message with two recipients and an empty from_address is returned
C10_Witness ==
    /\ qpc = "done"
    /\ qresult.ok
    /\ Len(qresult.value.v[K("to_addresses")].v) = 2
    /\ SenderPresent(qresult.value)
    /\ ~SenderNonEmpty(qresult.value)

\* ----------------------------------------------- get_template: claims ----
\* the store answers that the object req_key is missing from its bucket
ObjectMissing ==
    GetObject(s3_buckets, s3_objects, s3_fault, req_bucket, req_key).code = "NoSuchKey"

\* C11: get_template fails with one kind of error (TemplateNotFound) when
\* the store answers that the object is missing and with another kind
\* (TemplateResolutionError) for a credential or transport failure: the
\* error raised for the missing object differs in kind from the error the
\* same request raises under each such failure.
C11_AsStated ==
    (spc = "done" /\ ObjectMissing) =>
        /\ ~sresult.ok
        /\ \A fault \in S3Faults \ {"none"} :
              GetTemplate(s3_buckets, s3_objects, fault, req_bucket, req_key).raised
                  # sresult.raised

====
